---- MODULE Spec2Model ----
(***************************************************************************)
(* Model of MySQL_Remote_Backup/mysql-remote-backup.py: one process runs   *)
(* __main__, which constructs DatabaseBackup from the process environment  *)
(* and calls backup(): connect over SSH, run mysqldump remotely, download  *)
(* the dump over SFTP, optionally remove the remote copy, report, close.   *)
(*                                                                         *)
(* Python strings are TLA+ strings.  An optional value (a str or None) is  *)
(* a sequence of length 0 or 1: None is <<>>, the string s is <<s>>.       *)
(* paramiko, the remote shell and the two file systems are the             *)
(* environment of the program: every call into them picks its outcome      *)
(* nondeterministically among the outcomes the call can have.              *)
(***************************************************************************)
EXTENDS FiniteSets, Integers, Sequences, TLC

VARIABLES
    env,        \* env[p]: the environment of process p, a dict key -> str
    pc,         \* pc[p]: the position of process p in the program
    self,       \* self[p]: the DatabaseBackup object, None before __init__
    frame,      \* frame[p]: the local variables of backup()
    session,    \* session[p]: state of the SSH session handle
    channel,    \* channel[p]: state of the SFTP channel handle
    calls,      \* calls[p]: the external operations p has invoked, in order
    exc,        \* exc[p]: the exception that is propagating, None if none
    exitCode,   \* exitCode[p]: the exit code of the process, None if running
    shell,      \* shell[p]: the remote command of process p
    localFS,    \* the local file system: path -> entry
    remoteFS    \* the remote file system: path -> entry

vars == <<env, pc, self, frame, session, channel, calls, exc, exitCode,
          shell, localFS, remoteFS>>

----------------------------------------------------------------------------
(* Bounds of the model *)

\* number of environment keys that differ from the base environment
MaxDeviations == 2

\* the processes the model has room for; Spec starts the first one only
NumProcs == 2

Procs == 1..NumProcs

----------------------------------------------------------------------------
(* Python values *)

None == <<>>

Some(s) == <<s>>

\* bool(x) for x a str or None
Truthy(x) == x # None /\ x[1] # ""

\* f"{x}" for x a str or None
Str(x) == IF x = None THEN "None" ELSE x[1]

\* t in s
Contains(s, t) ==
    \E i \in 1..(Len(s) - Len(t) + 1) : SubSeq(s, i, i + Len(t) - 1) = t

StartsWith(s, t) == Len(t) <= Len(s) /\ SubSeq(s, 1, Len(t)) = t

EndsWith(s, t) ==
    Len(t) <= Len(s) /\ SubSeq(s, Len(s) - Len(t) + 1, Len(s)) = t

Digits == "0123456789"

UpperCase == "ABCDEFGHIJKLMNOPQRSTUVWXYZ"

LowerCase == "abcdefghijklmnopqrstuvwxyz"

\* the position of the one-character string c in s, 0 if absent
IndexOf(s, c) ==
    IF \E i \in 1..Len(s) : SubSeq(s, i, i) = c
    THEN CHOOSE i \in 1..Len(s) : SubSeq(s, i, i) = c
    ELSE 0

LowerChar(c) ==
    CHOOSE r \in { IF k = 0 THEN c ELSE SubSeq(LowerCase, k, k) :
                      k \in {IndexOf(UpperCase, c)} } : TRUE

RECURSIVE LowerFirst(_, _)
\* the first n characters of s in lower case
LowerFirst(s, n) ==
    IF n = 0 THEN ""
    ELSE LowerFirst(s, n - 1) \o LowerChar(SubSeq(s, n, n))

\* str.lower()
Lower(s) == LowerFirst(s, Len(s))

\* the ASCII characters str.strip() removes (the vertical tab and the
\* separators 0x1c-0x1f, which it also removes, have no TLA+ spelling)
Whitespace == " \t\n\r\f"

IsSpace(c) == IndexOf(Whitespace, c) # 0

IsDigit(c) == IndexOf(Digits, c) # 0

\* the first position of s that holds no whitespace, Len(s) + 1 if none
FirstInner(s) ==
    CHOOSE i \in 1..(Len(s) + 1) :
        /\ i > Len(s) \/ ~ IsSpace(SubSeq(s, i, i))
        /\ \A j \in 1..(i - 1) : IsSpace(SubSeq(s, j, j))

\* the last position of s that holds no whitespace, 0 if none
LastInner(s) ==
    CHOOSE i \in 0..Len(s) :
        /\ i = 0 \/ ~ IsSpace(SubSeq(s, i, i))
        /\ \A j \in (i + 1)..Len(s) : IsSpace(SubSeq(s, j, j))

\* the text of an int literal after the surrounding whitespace is dropped:
\* from the first to the last character that is not whitespace
Strip(s) ==
    IF FirstInner(s) > Len(s) THEN ""
    ELSE SubSeq(s, FirstInner(s), LastInner(s))

\* s starts with the sign of an int literal
HasSign(s) == Len(s) > 0 /\ SubSeq(s, 1, 1) \in {"+", "-"}

\* the literal without its sign
Unsigned(s) == IF HasSign(s) THEN SubSeq(s, 2, Len(s)) ELSE s

\* the digits of an int literal: decimal digits, with single underscores
\* allowed between two digits
IsDigitGroups(s) ==
    /\ Len(s) > 0
    /\ \A i \in 1..Len(s) :
         \/ IsDigit(SubSeq(s, i, i))
         \/ /\ SubSeq(s, i, i) = "_"
            /\ 1 < i /\ i < Len(s)
            /\ IsDigit(SubSeq(s, i - 1, i - 1))
            /\ IsDigit(SubSeq(s, i + 1, i + 1))

\* the character c is one int() reads on as part of the digits
InDigitRun(c) == IsDigit(c) \/ c = "_"

\* the digits and underscores s starts with: what int() scans before it
\* looks at the rest
LeadingDigits(s) ==
    SubSeq(s, 1, (CHOOSE i \in 1..(Len(s) + 1) :
                    /\ i > Len(s) \/ ~ InDigitRun(SubSeq(s, i, i))
                    /\ \A j \in 1..(i - 1) : InDigitRun(SubSeq(s, j, j))) - 1)

\* the number of decimal digits in s
DigitCount(s) == Cardinality({i \in 1..Len(s) : IsDigit(SubSeq(s, i, i))})

\* sys.int_info.default_max_str_digits
MaxStrDigits == 4300

\* int() refuses the literal t (without surrounding whitespace) for its
\* length: the digits it starts with are well grouped and more than
\* MaxStrDigits; what follows them is not looked at
TooLong(t) ==
    /\ Len(t) > MaxStrDigits
    /\ IsDigitGroups(LeadingDigits(Unsigned(t)))
    /\ DigitCount(LeadingDigits(Unsigned(t))) > MaxStrDigits

\* the first position of the digit groups s that holds a digit other than
\* 0, Len(s) + 1 if none
FirstSignificant(s) ==
    CHOOSE i \in 1..(Len(s) + 1) :
        /\ i > Len(s) \/ SubSeq(s, i, i) \notin {"0", "_"}
        /\ \A j \in 1..(i - 1) : SubSeq(s, j, j) \in {"0", "_"}

RECURSIVE DigitsValue(_, _, _)
\* the value of the characters lo..n of digits grouped by underscores
DigitsValue(s, lo, n) ==
    IF n < lo THEN 0
    ELSE IF SubSeq(s, n, n) = "_" THEN DigitsValue(s, lo, n - 1)
    ELSE 10 * DigitsValue(s, lo, n - 1) + IndexOf(Digits, SubSeq(s, n, n)) - 1

\* the value of digit groups: the leading zeros add nothing
DigitsToInt(s) == DigitsValue(s, FirstSignificant(s), Len(s))

\* the value of the int literal t, which has no surrounding whitespace:
\* None when int() raises ValueError
Literal(t) ==
    IF ~ IsDigitGroups(Unsigned(t)) \/ TooLong(t) THEN None
    ELSE IF HasSign(t) /\ SubSeq(t, 1, 1) = "-"
    THEN Some(0 - DigitsToInt(Unsigned(t)))
    ELSE Some(DigitsToInt(Unsigned(t)))

\* int(s) for a str s of ASCII characters: None when int() raises ValueError
ParseInt(s) == CHOOSE r \in {Literal(t) : t \in {Strip(s)}} : TRUE

\* the character c as repr() writes it between the quotes q
EscapeChar(c, q) ==
    CASE c = "\\" -> "\\\\"
      [] c = q -> "\\" \o q
      [] c = "\n" -> "\\n"
      [] c = "\t" -> "\\t"
      [] c = "\r" -> "\\r"
      [] c = "\f" -> "\\x0c"
      [] OTHER -> c

RECURSIVE Escape(_, _, _, _)
\* the characters lo..hi of s as repr() writes them between the quotes q
Escape(s, q, lo, hi) ==
    IF lo > hi THEN ""
    ELSE IF lo = hi THEN EscapeChar(SubSeq(s, lo, lo), q)
    ELSE Escape(s, q, lo, (lo + hi) \div 2)
         \o Escape(s, q, ((lo + hi) \div 2) + 1, hi)

\* repr(s) for a str s of ASCII characters: double quotes when s holds a
\* single quote and no double quote
Repr(s) ==
    LET q == IF Contains(s, "'") /\ ~ Contains(s, "\"") THEN "\"" ELSE "'"
    IN  q \o Escape(s, q, 1, Len(s)) \o q

\* the first n characters of s (the precision of a format, %.200R)
Precision(s, n) == SubSeq(s, 1, IF Len(s) < n THEN Len(s) ELSE n)

RECURSIVE Decimal(_)
\* str(n) for an int n >= 0
Decimal(n) ==
    IF n < 10 THEN SubSeq(Digits, n + 1, n + 1)
    ELSE Decimal(n \div 10) \o SubSeq(Digits, (n % 10) + 1, (n % 10) + 1)

\* the message of int() for more than MaxStrDigits digits
LimitError(digits) ==
    "Exceeds the limit (" \o Decimal(MaxStrDigits)
    \o " digits) for integer string conversion: value has "
    \o Decimal(digits)
    \o " digits; use sys.set_int_max_str_digits() to increase the limit"

\* the message of the ValueError int(s) raises: the repr of s is cut after
\* 200 characters
IntError(s) ==
    IF TooLong(Strip(s))
    THEN LimitError(DigitCount(LeadingDigits(Unsigned(Strip(s)))))
    ELSE "invalid literal for int() with base 10: "
         \o Precision(Repr(s), 200)

RECURSIVE Pad(_, _)
\* the decimal digits of n, zero-padded to width w (%Y, %m, %d, %H, %M, %S)
Pad(n, w) ==
    IF w = 0 THEN ""
    ELSE Pad(n \div 10, w - 1) \o SubSeq(Digits, (n % 10) + 1, (n % 10) + 1)

\* os.path.join(a, b)
OsPathJoin(a, b) ==
    IF StartsWith(b, "/") THEN b
    ELSE IF a = "" \/ EndsWith(a, "/") THEN a \o b
    ELSE a \o "/" \o b

----------------------------------------------------------------------------
(* The process environment (os.environ after load_dotenv) *)

Keys == {"SSH_HOST", "SSH_PORT", "SSH_USER", "SSH_KEY_PATH", "DB_HOST",
         "DB_PORT", "DB_NAME", "DB_USER", "DB_PASSWORD", "REMOTE_BACKUP_DIR",
         "LOCAL_BACKUP_DIR", "REMOVE_REMOTE_BACKUP"}

\* the path of the private key that exists on the local file system
KeyFile == "/k"

\* the base environment: the required keys set, the others left unset
BaseEnv ==
    [k \in {"SSH_HOST", "SSH_USER", "SSH_KEY_PATH", "DB_NAME", "DB_USER"} |->
        CASE k = "SSH_HOST" -> "h"
          [] k = "SSH_USER" -> "u"
          [] k = "SSH_KEY_PATH" -> KeyFile
          [] k = "DB_NAME" -> "orders"
          [] k = "DB_USER" -> "root"]

\* the other settings of each key (None: the key is unset)
Alternatives(k) ==
    CASE k = "SSH_HOST" -> {None, Some("")}
      [] k = "SSH_PORT" -> {Some("abc"), Some("-1"), Some(" 2_2\n")}
      [] k = "SSH_USER" -> {None, Some("")}
      [] k = "SSH_KEY_PATH" -> {None, Some(""), Some("/nokey")}
      [] k = "DB_HOST" -> {Some("dbh")}
      [] k = "DB_PORT" -> {Some("3307")}
      [] k = "DB_NAME" -> {None, Some("")}
      [] k = "DB_USER" -> {None, Some("")}
      [] k = "DB_PASSWORD" -> {Some(""), Some("pw")}
      [] k = "REMOTE_BACKUP_DIR" -> {Some("/stage")}
      [] k = "LOCAL_BACKUP_DIR" -> {Some("/out/sub/"), Some("")}
      [] k = "REMOVE_REMOTE_BACKUP" ->
            {Some("true"), Some("TRUE"), Some("false"), Some("")}

\* the base environment with the keys of d set (or unset) as a says
Deviate(d, a) ==
    [k \in ((DOMAIN BaseEnv) \ {k \in d : a[k] = None})
            \cup {k \in d : a[k] # None} |->
        IF k \in d THEN a[k][1] ELSE BaseEnv[k]]

Envs ==
    UNION { { Deviate(d, a) :
                a \in { b \in [d -> UNION {Alternatives(k) : k \in d}] :
                           \A k \in d : b[k] \in Alternatives(k) } } :
            d \in { e \in SUBSET Keys : Cardinality(e) <= MaxDeviations } }

\* os.getenv(k)
getenv(e, k) == IF k \in DOMAIN e THEN Some(e[k]) ELSE None

\* os.getenv(k, default) with a str default
getenvDefault(e, k, default) == IF k \in DOMAIN e THEN e[k] ELSE default

----------------------------------------------------------------------------
(* The file systems *)

EmptyFS == [path \in {} |-> path]

\* An entry records what the file is, which process produced its content
\* (0: no process of the model did alone), whether the content is a whole
\* dump, and which process downloaded it (0: it was not downloaded).
Entry(kind, writer, complete, fetched) ==
    [kind |-> kind, writer |-> writer, complete |-> complete,
     fetched |-> fetched]

KeyEntry == Entry("key", 0, TRUE, 0)

DirEntry == Entry("dir", 0, TRUE, 0)

\* a dump left behind by an earlier run
OldDump == Entry("dump", 0, TRUE, 0)

\* the file the dump command of process p writes: what the command has
\* written so far while it runs, the whole dump once it has exited with 0
Dump(p, complete) == Entry("dump", p, complete, 0)

\* the local file a download by process p leaves: the remote content when
\* the transfer completed, a truncated file when it failed
Download(p, remote, complete) ==
    Entry("dump", remote.writer, remote.complete /\ complete, p)

\* the local file process p opened for a download that holds no dump and
\* no part of one: it was created or truncated and nothing of the remote
\* file arrived, or another download wrote to it at the same time
Truncated(p) == Entry("dump", 0, FALSE, p)

RECURSIVE SplitFrom(_, _, _)
\* the components of d that end at position i or later, the first of them
\* beginning at position start
SplitFrom(d, start, i) ==
    IF i > Len(d) THEN <<SubSeq(d, start, Len(d))>>
    ELSE IF SubSeq(d, i, i) = "/"
    THEN <<SubSeq(d, start, i - 1)>> \o SplitFrom(d, i + 1, i + 1)
    ELSE SplitFrom(d, start, i + 1)

\* d.split('/')
Split(d) == SplitFrom(d, 1, 1)

\* the root of a POSIX path: exactly two leading slashes are kept
PathRoot(d) ==
    IF StartsWith(d, "//") /\ ~ StartsWith(d, "///") THEN "//"
    ELSE IF StartsWith(d, "/") THEN "/"
    ELSE ""

\* the components of a POSIX path: empty ones and "." are dropped
PathParts(d) == SelectSeq(Split(d), LAMBDA c : c # "" /\ c # ".")

RECURSIVE Join(_, _)
\* '/'.join(parts[:n])
Join(parts, n) ==
    IF n = 0 THEN ""
    ELSE IF n = 1 THEN parts[1]
    ELSE Join(parts, n - 1) \o "/" \o parts[n]

\* the path with the root root and the components parts, as str() gives it
PathStr(root, parts) ==
    IF root = "" /\ parts = <<>> THEN "."
    ELSE root \o Join(parts, Len(parts))

\* str(Path(d))
PathOf(d) == PathStr(PathRoot(d), PathParts(d))

\* the directories Path(d).mkdir(parents=True) makes sure of: the path and
\* its ancestors below the root or the current directory
MkdirPaths(d) ==
    IF PathParts(d) = <<>> THEN {PathOf(d)}
    ELSE { PathStr(PathRoot(d), SubSeq(PathParts(d), 1, n)) :
               n \in 1..Len(PathParts(d)) }

\* the directories a failed Path(d).mkdir(parents=True) may have made: it
\* makes the missing ancestors one by one, from the topmost down, so the
\* first of them are made when a later one fails
MkdirPartial(d) ==
    { { PathStr(PathRoot(d), SubSeq(PathParts(d), 1, n)) : n \in 1..k } :
          k \in 0..(Len(PathParts(d)) - 1) } \cup {{}}

\* the directories made: the directories of dirs that are not there yet
MakeDirs(fs, dirs) ==
    [path \in (DOMAIN fs) \cup dirs |->
        IF path \in DOMAIN fs THEN fs[path] ELSE DirEntry]

\* os.path.exists(path)
Exists(fs, path) == path \in DOMAIN fs

Write(fs, path, entry) == (path :> entry) @@ fs

Delete(fs, path) == [q \in (DOMAIN fs) \ {path} |-> fs[q]]

----------------------------------------------------------------------------
(* DatabaseBackup *)

DefaultSshPort == 22

\* int(os.getenv('SSH_PORT', 22)): None when int() raises
SshPort(e) ==
    IF "SSH_PORT" \in DOMAIN e THEN ParseInt(e["SSH_PORT"])
    ELSE Some(DefaultSshPort)

\* the fields __init__ sets from the environment e
DatabaseBackup(e) ==
    [ssh_host |-> getenv(e, "SSH_HOST"),
     ssh_port |-> SshPort(e)[1],
     ssh_user |-> getenv(e, "SSH_USER"),
     ssh_key_path |-> getenv(e, "SSH_KEY_PATH"),
     db_host |-> getenvDefault(e, "DB_HOST", "localhost"),
     db_port |-> getenvDefault(e, "DB_PORT", "3306"),
     db_name |-> getenv(e, "DB_NAME"),
     db_user |-> getenv(e, "DB_USER"),
     db_password |-> getenv(e, "DB_PASSWORD"),
     remote_backup_dir |-> getenvDefault(e, "REMOTE_BACKUP_DIR", "/tmp"),
     local_backup_dir |-> getenvDefault(e, "LOCAL_BACKUP_DIR", "./backups")]

\* datetime.now() at the moments the model distinguishes: two moments
\* within one second, and a moment in the next second
Times ==
    { [year |-> 2024, month |-> 1, day |-> 5, hour |-> 9, minute |-> 3,
       second |-> t[1], microsecond |-> t[2]] :
          t \in {<<7, 0>>, <<7, 500000>>, <<8, 0>>} }

\* strftime with the microseconds appended (%f)
strftime_Micro(now) ==
    Pad(now.year, 4) \o Pad(now.month, 2) \o Pad(now.day, 2) \o "_"
    \o Pad(now.hour, 2) \o Pad(now.minute, 2) \o Pad(now.second, 2)
    \o Pad(now.microsecond, 6)

\* strftime without the seconds (%S)
strftime_Minutes(now) ==
    Pad(now.year, 4) \o Pad(now.month, 2) \o Pad(now.day, 2) \o "_"
    \o Pad(now.hour, 2) \o Pad(now.minute, 2)

\* now.strftime('%Y%m%d_%H%M%S')
strftime(now) ==
    Pad(now.year, 4) \o Pad(now.month, 2) \o Pad(now.day, 2) \o "_"
    \o Pad(now.hour, 2) \o Pad(now.minute, 2) \o Pad(now.second, 2)

generate_backup_filename(s, now) ==
    Str(s.db_name) \o "_backup_" \o strftime(now) \o ".sql"

\* create_backup_command testing the password with "is not None"
create_backup_command_IsNotNone(s, backup_file) ==
    LET remote_path == s.remote_backup_dir \o "/" \o backup_file
        head == "mysqldump -h " \o s.db_host \o " -P " \o s.db_port
                \o " -u " \o Str(s.db_user) \o " "
        pass == IF s.db_password # None
                THEN "-p'" \o s.db_password[1] \o "' "
                ELSE ""
    IN  <<head \o pass \o Str(s.db_name) \o " > " \o remote_path,
          remote_path>>

\* the pair <<cmd, remote_path>>
create_backup_command(s, backup_file) ==
    LET remote_path == s.remote_backup_dir \o "/" \o backup_file
        head == "mysqldump -h " \o s.db_host \o " -P " \o s.db_port
                \o " -u " \o Str(s.db_user) \o " "
        pass == IF Truthy(s.db_password)
                THEN "-p'" \o s.db_password[1] \o "' "
                ELSE ""
    IN  <<head \o pass \o Str(s.db_name) \o " > " \o remote_path,
          remote_path>>

\* remove_remote with the default 'false'
remove_remote_DefaultFalse(e) ==
    Lower(getenvDefault(e, "REMOVE_REMOTE_BACKUP", "false")) = "true"

\* remove_remote without .lower()
remove_remote_CaseSensitive(e) ==
    getenvDefault(e, "REMOVE_REMOTE_BACKUP", "true") = "true"

\* os.getenv('REMOVE_REMOTE_BACKUP', 'true').lower() == 'true'
remove_remote(e) ==
    Lower(getenvDefault(e, "REMOVE_REMOTE_BACKUP", "true")) = "true"

\* the local variables of backup() before line 71.  remote_file is the
\* remote file the get call of line 101 has open while it runs: what the
\* file held when get read its first piece and, once the file was removed
\* under it, what it held then
NoFrame ==
    [backup_file |-> None, local_path |-> None, backup_cmd |-> None,
     remote_path |-> None, exit_status |-> None, error_msg |-> None,
     ssh_client |-> FALSE, sftp_client |-> FALSE, result |-> None,
     now |-> None, stderr |-> None, remote_file |-> None]

\* the remote command of a run before it is sent.  Its states: "none",
\* "started" (the server accepted it), "running" (the shell opened the file
\* of the redirection), "unlinked" (running, the file removed under it) and
\* "exited" (ended with exit_status)
NoCommand == [state |-> "none", exit_status |-> None]

Call(op, args, ok) == [op |-> op, args |-> args, ok |-> ok]

----------------------------------------------------------------------------
(* The initial state *)

\* the local file system before the run: the key file, and possibly a file
\* that has the name the run will give its artifact
LocalStarts ==
    { Write(EmptyFS, KeyFile, KeyEntry),
      Write(Write(EmptyFS, KeyFile, KeyEntry),
            "./backups/orders_backup_20240105_090307.sql", OldDump) }

\* the remote file system before the run
RemoteStarts ==
    { EmptyFS, Write(EmptyFS, "/tmp/orders_backup_20240105_090307.sql", OldDump) }

\* the state of the processes that are not started
Idle ==
    /\ self = [p \in Procs |-> None]
    /\ frame = [p \in Procs |-> NoFrame]
    /\ session = [p \in Procs |-> "none"]
    /\ channel = [p \in Procs |-> "none"]
    /\ calls = [p \in Procs |-> <<>>]
    /\ exc = [p \in Procs |-> None]
    /\ exitCode = [p \in Procs |-> None]
    /\ shell = [p \in Procs |-> NoCommand]

Init ==
    /\ \E e \in Envs : env = [p \in Procs |-> IF p = 1 THEN e ELSE BaseEnv]
    /\ pc = [p \in Procs |-> IF p = 1 THEN "main" ELSE "off"]
    /\ Idle
    /\ localFS \in LocalStarts
    /\ remoteFS \in RemoteStarts

----------------------------------------------------------------------------
(* The steps of a process *)

\* raise: the exception propagates to the handler at position to
Raise(p, msg, to) ==
    /\ exc' = [exc EXCEPT ![p] = Some(msg)]
    /\ pc' = [pc EXCEPT ![p] = to]

Goto(p, to) ==
    /\ pc' = [pc EXCEPT ![p] = to]
    /\ UNCHANGED exc

Log(p, call) == calls' = [calls EXCEPT ![p] = Append(@, call)]

\* __main__: backup = DatabaseBackup()
Construct(p) ==
    /\ pc[p] = "main"
    /\ UNCHANGED <<env, frame, session, channel, exitCode, shell, remoteFS>>
    /\ IF SshPort(env[p]) = None
       THEN /\ Raise(p, IntError(env[p]["SSH_PORT"]), "exit")
            /\ UNCHANGED <<self, calls, localFS>>
       ELSE \E s \in {DatabaseBackup(env[p])} :
            \E dir \in {PathOf(s.local_backup_dir)},
               dirs \in {MkdirPaths(s.local_backup_dir)}, ok \in BOOLEAN :
              /\ Log(p, Call("mkdir", <<dir>>, ok))
              /\ IF ok
                 THEN /\ \A d \in dirs :
                           Exists(localFS, d) => localFS[d] = DirEntry
                      /\ localFS' = MakeDirs(localFS, dirs)
                      /\ self' = [self EXCEPT ![p] = Some(s)]
                      /\ Goto(p, "backup")
                 ELSE /\ Raise(p, "mkdir failed: " \o dir, "exit")
                      /\ \E made \in MkdirPartial(s.local_backup_dir) :
                           /\ \A d \in made :
                                Exists(localFS, d) => localFS[d] = DirEntry
                           /\ localFS' = MakeDirs(localFS, made)
                      /\ UNCHANGED self

\* BackupBegin calling generate_backup_filename a second time for local_path
BackupBegin_TwoNames(p) ==
    /\ pc[p] = "backup"
    /\ \E now \in Times, later \in Times :
         LET s == self[p][1]
             backup_file == generate_backup_filename(s, now)
         IN  frame' = [frame EXCEPT ![p] =
                 [NoFrame EXCEPT
                     !.now = Some(now),
                     !.backup_file = Some(backup_file),
                     !.local_path =
                         Some(OsPathJoin(s.local_backup_dir,
                                         generate_backup_filename(s, later)))]]
    /\ pc' = [pc EXCEPT ![p] = "connect"]
    /\ UNCHANGED <<env, self, session, channel, calls, exc, exitCode,
                   shell, localFS, remoteFS>>

\* backup(), lines 71-78
BackupBegin(p) ==
    /\ pc[p] = "backup"
    /\ \E now \in Times :
         \E backup_file \in {generate_backup_filename(self[p][1], now)} :
           frame' = [frame EXCEPT ![p] =
               [NoFrame EXCEPT
                   !.now = Some(now),
                   !.backup_file = Some(backup_file),
                   !.local_path =
                       Some(OsPathJoin(self[p][1].local_backup_dir,
                                       backup_file))]]
    /\ Goto(p, "connect")
    /\ UNCHANGED <<env, self, session, channel, calls, exitCode,
                   shell, localFS, remoteFS>>

\* KeyMissing without the os.path.exists test
KeyMissing_Unchecked(s, fs) == ~ Truthy(s.ssh_key_path)

\* the guard of line 39
KeyMissing(s, fs) ==
    ~ Truthy(s.ssh_key_path) \/ ~ Exists(fs, s.ssh_key_path[1])

\* CreateSshClient trying the connection a second time when it failed
CreateSshClient_RetryOnce(p) ==
    /\ pc[p] = "connect"
    /\ UNCHANGED <<env, self, channel, exitCode, shell, localFS, remoteFS>>
    /\ LET s == self[p][1] IN
       IF ~ Truthy(s.ssh_key_path) \/ ~ Exists(localFS, s.ssh_key_path[1])
       THEN /\ Raise(p, "SSH key not found at: " \o Str(s.ssh_key_path),
                     "finally")
            /\ UNCHANGED <<frame, session, calls>>
       ELSE \E ok \in BOOLEAN :
              /\ Log(p, Call("connect", <<s.ssh_host, s.ssh_port, s.ssh_user,
                                          s.ssh_key_path[1]>>, ok))
              /\ IF ok
                 THEN /\ session' = [session EXCEPT ![p] = "open"]
                      /\ frame' = [frame EXCEPT ![p].ssh_client = TRUE]
                      /\ Goto(p, "exec")
                 ELSE /\ IF calls[p][Len(calls[p])].op = "connect"
                         THEN Raise(p, "connect failed", "finally")
                         ELSE UNCHANGED <<pc, exc>>
                      /\ UNCHANGED <<frame, session>>

\* backup(), line 82: ssh_client = self.create_ssh_client()
CreateSshClient(p) ==
    /\ pc[p] = "connect"
    /\ UNCHANGED <<env, self, channel, exitCode, shell, localFS, remoteFS>>
    /\ LET s == self[p][1] IN
       IF KeyMissing(s, localFS)
       THEN /\ Raise(p, "SSH key not found at: " \o Str(s.ssh_key_path),
                     "finally")
            /\ UNCHANGED <<frame, session, calls>>
       ELSE \E ok \in BOOLEAN :
              /\ Log(p, Call("connect", <<s.ssh_host, s.ssh_port, s.ssh_user,
                                          s.ssh_key_path[1]>>, ok))
              /\ IF ok
                 THEN /\ session' = [session EXCEPT ![p] = "open"]
                      /\ frame' = [frame EXCEPT ![p].ssh_client = TRUE]
                      /\ Goto(p, "exec")
                 ELSE /\ Raise(p, "connect failed", "finally")
                      /\ UNCHANGED <<frame, session>>

\* the exit statuses of the remote command
ExitStatuses == {0, 1}

\* the ASCII characters with the codes 32..95 and 97..126, in that order
\* (the grave accent, code 96, has no TLA+ spelling)
AsciiLow ==
    " !\"#$%&'()*+,-./0123456789:;<=>?@ABCDEFGHIJKLMNOPQRSTUVWXYZ[\\]^_"

AsciiHigh == "abcdefghijklmnopqrstuvwxyz{|}~"

\* ord(c) for a printable ASCII character c
Ord(c) ==
    IF IndexOf(AsciiLow, c) # 0 THEN IndexOf(AsciiLow, c) + 31
    ELSE IndexOf(AsciiHigh, c) + 96

\* chr(b) for the ASCII codes that have a TLA+ spelling
Chr(b) ==
    CASE 32 <= b /\ b <= 95 -> SubSeq(AsciiLow, b - 31, b - 31)
      [] 97 <= b /\ b <= 126 -> SubSeq(AsciiHigh, b - 96, b - 96)
      [] b = 9 -> "\t"
      [] b = 10 -> "\n"
      [] b = 12 -> "\f"
      [] b = 13 -> "\r"

\* s.encode() for a str s of printable ASCII characters
Encode(s) == [i \in 1..Len(s) |-> Ord(SubSeq(s, i, i))]

\* what the command may have written to its standard error: nothing, a
\* message, and a message after two bytes that are not UTF-8
StderrOutputs ==
    { Encode(""), Encode("Access denied"),
      <<255, 254>> \o Encode("Access denied") }

\* the byte b is an ASCII character
IsAscii(b) == b < 128

\* the position of the first byte of bytes that is not ASCII, 0 if all are.
\* The bytes of the model that are not ASCII are bytes that can start no
\* UTF-8 sequence (0x80-0xc1, 0xf5-0xff): decoding stops at the first.
FirstInvalid(bytes) ==
    IF \A i \in 1..Len(bytes) : IsAscii(bytes[i]) THEN 0
    ELSE CHOOSE i \in 1..Len(bytes) :
            /\ ~ IsAscii(bytes[i])
            /\ \A j \in 1..(i - 1) : IsAscii(bytes[j])

RECURSIVE CharsOf(_, _)
\* the text of the first n bytes of ASCII bytes
CharsOf(bytes, n) ==
    IF n = 0 THEN ""
    ELSE CharsOf(bytes, n - 1) \o Chr(bytes[n])

\* the text of ASCII bytes
Chars(bytes) == CharsOf(bytes, Len(bytes))

\* bytes.decode(): None when it raises UnicodeDecodeError
Decode(bytes) ==
    IF FirstInvalid(bytes) = 0 THEN Some(Chars(bytes)) ELSE None

HexDigits == "0123456789abcdef"

\* the two hexadecimal digits of the byte b
Hex(b) ==
    SubSeq(HexDigits, (b \div 16) + 1, (b \div 16) + 1)
    \o SubSeq(HexDigits, (b % 16) + 1, (b % 16) + 1)

\* the message of the UnicodeDecodeError bytes.decode() raises
DecodeError(bytes) ==
    "'utf-8' codec can't decode byte 0x" \o Hex(bytes[FirstInvalid(bytes)])
    \o " in position " \o Decimal(FirstInvalid(bytes) - 1)
    \o ": invalid start byte"

\* CommandFailed testing for a negative status only
CommandFailed_Negative(exit_status) == exit_status < 0

\* the test of line 92
CommandFailed(exit_status) == exit_status # 0

\* the message of the exception of line 94
BackupCommandError(error_msg) == "Backup command failed: " \o error_msg

\* backup(), lines 86-89: build the command and send it to the server
ExecCommand(p) ==
    /\ pc[p] = "exec"
    /\ UNCHANGED <<env, self, session, channel, exitCode, localFS, remoteFS>>
    /\ \E built \in {create_backup_command(self[p][1],
                                            frame[p].backup_file[1])} :
       LET backup_cmd == built[1]
           remote_path == built[2]
       IN  /\ frame' = [frame EXCEPT ![p].backup_cmd = Some(backup_cmd),
                                     ![p].remote_path = Some(remote_path)]
           /\ \E ok \in BOOLEAN :
                /\ Log(p, Call("exec_command", <<backup_cmd>>, ok))
                /\ IF ok
                   THEN /\ shell' = [shell EXCEPT ![p].state = "started"]
                        /\ Goto(p, "wait")
                   ELSE /\ Raise(p, "exec_command failed", "finally")
                        /\ UNCHANGED shell

\* a file several commands wrote to at once: it is no run's dump
Clobbered == Entry("dump", 0, FALSE, 0)

\* The remote shell performs the redirection of the command of process p
\* ("> remote_path", line 65): it creates or truncates the file and starts
\* mysqldump, or it cannot open the file and the command ends.
ShellOpen(p) ==
    /\ shell[p].state = "started"
    /\ UNCHANGED <<env, pc, self, frame, session, channel, calls, exc,
                   exitCode, localFS>>
    /\ \/ /\ remoteFS' = Write(remoteFS, frame[p].remote_path[1],
                                Dump(p, FALSE))
          /\ shell' = [shell EXCEPT ![p].state = "running"]
       \/ \E exit_status \in ExitStatuses \ {0} :
            /\ shell' = [shell EXCEPT ![p] =
                   [state |-> "exited", exit_status |-> Some(exit_status)]]
            /\ UNCHANGED remoteFS

\* What the file of the redirection may hold after the running command of
\* process p wrote a piece to it at its own offset.  A file that holds only
\* what this command wrote stays its partial dump.  After another command
\* truncated or wrote the file, the piece leaves exactly what this command
\* wrote (it is the first piece, written at offset 0, and covers what was
\* there; or it covers what the other command left behind the part this
\* command wrote) or a mix of both.
Written(p, file) ==
    IF file = Dump(p, FALSE) THEN {file}
    ELSE {Dump(p, FALSE), Clobbered}

\* The running command of process p writes its next piece to the file it
\* opened.  A command whose file was removed writes to a file without a
\* name.
ShellWrite(p) ==
    /\ shell[p].state = "running"
    /\ UNCHANGED <<env, pc, self, frame, session, channel, calls, exc,
                   exitCode, shell, localFS>>
    /\ \E remote_path \in {frame[p].remote_path[1]} :
       \E file \in Written(p, remoteFS[remote_path]) :
         remoteFS' = Write(remoteFS, remote_path, file)

\* What the file of the redirection may hold when the command of process p
\* ends with exit_status, its last pieces written.  With status 0 a file
\* that held only what this command wrote holds the whole dump.  After
\* another command truncated or wrote the file, status 0 leaves the whole
\* dump of this command (it wrote last and covered the rest), a mix, or the
\* file as the other command left it (this command had written everything
\* before).  A command that fails may have written a piece or none.
Finished(p, file, exit_status) ==
    IF exit_status = 0
    THEN IF file = Dump(p, FALSE) THEN {Dump(p, TRUE)}
         ELSE {Dump(p, TRUE), Clobbered, file}
    ELSE {file} \cup Written(p, file)

\* The remote command of process p ends.  A command whose file was removed
\* under it wrote to a file that has no name any more.
ShellExit(p) ==
    /\ shell[p].state \in {"running", "unlinked"}
    /\ UNCHANGED <<env, pc, self, frame, session, channel, calls, exc,
                   exitCode, localFS>>
    /\ \E exit_status \in ExitStatuses :
         /\ shell' = [shell EXCEPT ![p] =
                [state |-> "exited", exit_status |-> Some(exit_status)]]
         /\ IF shell[p].state = "unlinked" THEN UNCHANGED remoteFS
            ELSE \E remote_path \in {frame[p].remote_path[1]} :
                 \E file \in Finished(p, remoteFS[remote_path],
                                      exit_status) :
                   remoteFS' = Write(remoteFS, remote_path, file)

\* backup(), lines 90-96: wait for the exit status of the command; when it
\* is not zero, read and decode the standard error and raise
RecvExitStatus(p) ==
    /\ pc[p] = "wait"
    /\ shell[p].state = "exited"
    /\ UNCHANGED <<env, self, session, channel, calls, exitCode, shell,
                   localFS, remoteFS>>
    /\ LET exit_status == shell[p].exit_status[1] IN
       IF CommandFailed(exit_status)
       THEN \E output \in StderrOutputs :
            \E error_msg \in {Decode(output)} :
              IF error_msg = None
              THEN /\ frame' = [frame EXCEPT
                          ![p].exit_status = Some(exit_status),
                          ![p].stderr = Some(output)]
                   /\ Raise(p, DecodeError(output), "finally")
              ELSE /\ frame' = [frame EXCEPT
                          ![p].exit_status = Some(exit_status),
                          ![p].stderr = Some(output),
                          ![p].error_msg = error_msg]
                   /\ Raise(p, BackupCommandError(error_msg[1]), "finally")
       ELSE /\ frame' = [frame EXCEPT ![p].exit_status = Some(exit_status)]
            /\ Goto(p, "open_sftp")

\* the remote commands after the file at path is removed: those that have
\* it open go on writing to a file without a name
Unlink(path) ==
    [r \in Procs |->
        IF shell[r].state = "running" /\ frame[r].remote_path = Some(path)
        THEN [shell[r] EXCEPT !.state = "unlinked"]
        ELSE shell[r]]

\* backup(), line 100: sftp_client = ssh_client.open_sftp()
OpenSftp(p) ==
    /\ pc[p] = "open_sftp"
    /\ UNCHANGED <<env, self, session, exitCode, shell, localFS, remoteFS>>
    /\ \E ok \in BOOLEAN :
         /\ Log(p, Call("open_sftp", <<>>, ok))
         /\ IF ok
            THEN /\ channel' = [channel EXCEPT ![p] = "open"]
                 /\ frame' = [frame EXCEPT ![p].sftp_client = TRUE]
                 /\ Goto(p, "get")
            ELSE /\ Raise(p, "open_sftp failed", "finally")
                 /\ UNCHANGED <<frame, channel>>

\* the local variables of the runs after the file at path is removed: a
\* get call that has the file open goes on reading the file it was
Detach(path) ==
    [r \in Procs |->
        IF /\ pc[r] = "transfer"
           /\ frame[r].remote_path = Some(path)
           /\ frame[r].remote_file[1].removed = None
        THEN [frame[r] EXCEPT !.remote_file =
                 Some([first |-> @[1].first,
                       removed |-> Some(remoteFS[path])])]
        ELSE frame[r]]

\* the first part of a file, its end missing
Partial(file) == [file EXCEPT !.complete = FALSE]

\* What a get call delivers that read the first piece of the remote file
\* when it held first and reached the end of the file when it held rest.
\* An unchanged file is delivered as it is, and so is a dump that was
\* completed in between.  After the file was truncated or overwritten in
\* between, the call delivers what it had read before (all of the old
\* content, or its first part), the new content (it had read nothing
\* before), or a mix of both.
Transferred(first, rest) ==
    IF rest = first \/ (first.writer # 0 /\ first = Partial(rest))
    THEN {rest}
    ELSE {first, Partial(first), rest, Clobbered}

\* GetOpen removing the remote file when the download failed
GetOpen_CleanupOnFailure(p) ==
    /\ pc[p] = "get"
    /\ UNCHANGED <<env, self, session, channel, exitCode>>
    /\ LET remote_path == frame[p].remote_path[1]
           local_path == frame[p].local_path[1]
       IN
       \/ /\ Exists(remoteFS, remote_path)
          /\ frame' = [frame EXCEPT ![p].remote_file =
                 Some([first |-> remoteFS[remote_path], removed |-> None])]
          /\ localFS' = Write(localFS, local_path,
                               Download(p, remoteFS[remote_path], FALSE))
          /\ Goto(p, "transfer")
          /\ UNCHANGED <<calls, shell, remoteFS>>
       \/ /\ calls' = [calls EXCEPT ![p] =
                @ \o <<Call("get", <<remote_path, local_path>>, FALSE),
                       Call("remove", <<remote_path>>, TRUE)>>]
          /\ Raise(p, "get failed: " \o remote_path, "finally")
          /\ remoteFS' = Delete(remoteFS, remote_path)
          /\ shell' = Unlink(remote_path)
          /\ frame' = Detach(remote_path)
          /\ UNCHANGED localFS

\* backup(), line 101: sftp_client.get(remote_path, local_path) begins.  It
\* opens the local file for writing, which creates or truncates it, opens
\* the remote file and reads its first piece; or it raises, the local file
\* left as it was (it could not be opened) or left empty.
GetOpen(p) ==
    /\ pc[p] = "get"
    /\ UNCHANGED <<env, self, session, channel, exitCode, shell, remoteFS>>
    /\ LET remote_path == frame[p].remote_path[1]
           local_path == frame[p].local_path[1]
       IN
       \/ /\ Exists(remoteFS, remote_path)
          /\ frame' = [frame EXCEPT ![p].remote_file =
                 Some([first |-> remoteFS[remote_path], removed |-> None])]
          /\ localFS' = Write(localFS, local_path,
                               Download(p, remoteFS[remote_path], FALSE))
          /\ Goto(p, "transfer")
          /\ UNCHANGED calls
       \/ /\ Log(p, Call("get", <<remote_path, local_path>>, FALSE))
          /\ Raise(p, "get failed: " \o remote_path, "finally")
          /\ \E touched \in BOOLEAN :
               localFS' = IF touched
                          THEN Write(localFS, local_path, Truncated(p))
                          ELSE localFS
          /\ UNCHANGED frame

\* backup(), line 101: sftp_client.get(remote_path, local_path) reaches the
\* end of the remote file and returns, or it raises and leaves the local
\* file with what has arrived.  The remote file is read as it is now, or as
\* it was when it was removed.  A local file that another download opened
\* or wrote in the meantime holds this download or a mix of both.
GetTransfer(p) ==
    /\ pc[p] = "transfer"
    /\ UNCHANGED <<env, self, session, channel, exitCode, shell, remoteFS>>
    /\ frame' = [frame EXCEPT ![p].remote_file = None]
    /\ \E remote_path \in {frame[p].remote_path[1]},
          local_path \in {frame[p].local_path[1]},
          first \in {frame[p].remote_file[1].first} :
       \/ \E rest \in {IF frame[p].remote_file[1].removed # None
                        THEN frame[p].remote_file[1].removed[1]
                        ELSE remoteFS[remote_path]} :
          \E content \in Transferred(first, rest) :
          \E mixed \in {FALSE}
                        \cup {localFS[local_path] # Download(p, first, FALSE)} :
            /\ Log(p, Call("get", <<remote_path, local_path>>, TRUE))
            /\ localFS' = Write(localFS, local_path,
                                 IF mixed THEN Truncated(p)
                                 ELSE Download(p, content, TRUE))
            /\ Goto(p, "remove")
       \/ /\ Log(p, Call("get", <<remote_path, local_path>>, FALSE))
          /\ Raise(p, "get failed: " \o remote_path, "finally")
          /\ UNCHANGED localFS

\* backup(), lines 105-108
Remove(p) ==
    /\ pc[p] = "remove"
    /\ UNCHANGED <<env, self, session, channel, exitCode, localFS>>
    /\ \E remote_path \in {frame[p].remote_path[1]} :
       IF remove_remote(env[p])
       THEN \/ /\ Exists(remoteFS, remote_path)
               /\ Log(p, Call("remove", <<remote_path>>, TRUE))
               /\ remoteFS' = Delete(remoteFS, remote_path)
               /\ shell' = Unlink(remote_path)
               /\ frame' = Detach(remote_path)
               /\ Goto(p, "report")
            \/ /\ Log(p, Call("remove", <<remote_path>>, FALSE))
               /\ Raise(p, "remove failed: " \o remote_path, "finally")
               /\ UNCHANGED <<frame, shell, remoteFS>>
       ELSE /\ Goto(p, "report")
            /\ UNCHANGED <<frame, calls, shell, remoteFS>>

\* backup(), lines 111-115: os.path.getsize(local_path), return local_path
Report(p) ==
    /\ pc[p] = "report"
    /\ UNCHANGED <<env, self, session, channel, exitCode, shell, localFS,
                   remoteFS>>
    /\ LET local_path == frame[p].local_path[1] IN
       \/ /\ Exists(localFS, local_path)
          /\ Log(p, Call("getsize", <<local_path>>, TRUE))
          /\ frame' = [frame EXCEPT ![p].result = Some(local_path)]
          /\ Goto(p, "finally")
       \/ \* os.path.getsize raises OSError
          /\ Log(p, Call("getsize", <<local_path>>, FALSE))
          /\ Raise(p, "getsize failed: " \o local_path, "finally")
          /\ UNCHANGED frame

\* FinallyCalls with the second test written as elif
FinallyCalls_Elif(sftp_client, ssh_client) ==
    IF sftp_client THEN <<[op |-> "sftp_client.close", args |-> <<>>, ok |-> TRUE]>>
    ELSE IF ssh_client THEN <<[op |-> "ssh_client.close", args |-> <<>>, ok |-> TRUE]>>
    ELSE <<>>

\* FinallyCalls closing the session before the channel
FinallyCalls_Reversed(sftp_client, ssh_client) ==
    (IF ssh_client THEN <<[op |-> "ssh_client.close", args |-> <<>>, ok |-> TRUE]>> ELSE <<>>)
    \o (IF sftp_client THEN <<[op |-> "sftp_client.close", args |-> <<>>, ok |-> TRUE]>> ELSE <<>>)

\* the close calls of the finally block, in the order it makes them
FinallyCalls(sftp_client, ssh_client) ==
    (IF sftp_client THEN <<Call("sftp_client.close", <<>>, TRUE)>> ELSE <<>>)
    \o (IF ssh_client THEN <<Call("ssh_client.close", <<>>, TRUE)>> ELSE <<>>)

\* the finally block of frame f makes the close call op
Closes(f, op) ==
    \E i \in DOMAIN FinallyCalls(f.sftp_client, f.ssh_client) :
        FinallyCalls(f.sftp_client, f.ssh_client)[i].op = op

\* Finally removing the local artifact when an exception is propagating
Finally_Rollback(p) ==
    /\ pc[p] = "finally"
    /\ calls' = [calls EXCEPT ![p] =
                    @ \o FinallyCalls(frame[p].sftp_client, frame[p].ssh_client)]
    /\ channel' = [channel EXCEPT ![p] =
                      IF frame[p].sftp_client THEN "closed" ELSE @]
    /\ session' = [session EXCEPT ![p] =
                      IF frame[p].ssh_client THEN "closed" ELSE @]
    /\ localFS' = IF exc[p] # None /\ frame[p].local_path # None
                  THEN [q \in (DOMAIN localFS) \ {frame[p].local_path[1]} |->
                           localFS[q]]
                  ELSE localFS
    /\ pc' = [pc EXCEPT ![p] = "exit"]
    /\ UNCHANGED <<env, self, frame, exc, exitCode, shell, remoteFS>>

\* backup(), lines 120-124
Finally(p) ==
    /\ pc[p] = "finally"
    /\ calls' = [calls EXCEPT ![p] =
                    @ \o FinallyCalls(frame[p].sftp_client, frame[p].ssh_client)]
    /\ channel' = [channel EXCEPT ![p] =
                      IF Closes(frame[p], "sftp_client.close")
                      THEN "closed" ELSE @]
    /\ session' = [session EXCEPT ![p] =
                      IF Closes(frame[p], "ssh_client.close")
                      THEN "closed" ELSE @]
    /\ Goto(p, "exit")
    /\ UNCHANGED <<env, self, frame, exitCode, shell, localFS, remoteFS>>

\* ExitCodeOf without the exit(1) of the handler
ExitCodeOf_Zero(e) == 0

\* the exit code __main__ ends with: exit(1) in the handler, else 0
ExitCodeOf(e) == IF e # None THEN 1 ELSE 0

\* __main__, lines 130-132, or the end of the script
Exit(p) ==
    /\ pc[p] = "exit"
    /\ exitCode' = [exitCode EXCEPT ![p] = Some(ExitCodeOf(exc[p]))]
    /\ Goto(p, "done")
    /\ UNCHANGED <<env, self, frame, session, channel, calls, shell,
                   localFS, remoteFS>>

Next ==
    \E p \in Procs :
        \/ Construct(p)
        \/ BackupBegin(p)
        \/ CreateSshClient(p)
        \/ ExecCommand(p)
        \/ ShellOpen(p)
        \/ ShellWrite(p)
        \/ ShellExit(p)
        \/ RecvExitStatus(p)
        \/ OpenSftp(p)
        \/ GetOpen(p)
        \/ GetTransfer(p)
        \/ Remove(p)
        \/ Report(p)
        \/ Finally(p)
        \/ Exit(p)

Spec == Init /\ [][Next]_vars

TypeOK ==
    /\ \A p \in Procs :
         /\ pc[p] \in {"off", "main", "backup", "connect", "exec", "wait",
                       "open_sftp", "get", "transfer", "remove", "report",
                       "finally", "exit", "done"}
         /\ shell[p].state \in {"none", "started", "running", "unlinked",
                                "exited"}
         /\ session[p] \in {"none", "open", "closed"}
         /\ channel[p] \in {"none", "open", "closed"}
         /\ exitCode[p] \in {None, Some(0), Some(1)}

----------------------------------------------------------------------------
(* A run whose environment is changed while it is under way *)

\* how often the environment of a process is changed during its run
MaxEnvChanges == 1

\* os.environ with the key k set to the str v[1], or deleted when v is None
SetKey(e, k, v) ==
    [j \in IF v = None THEN (DOMAIN e) \ {k} ELSE (DOMAIN e) \cup {k} |->
        IF j = k THEN v[1] ELSE e[j]]

\* Other code of the process (a thread, a callback) changes
\* REMOVE_REMOTE_BACKUP in os.environ while backup() is between line 82 and
\* line 105.  The change is recorded with the old and the new value.
SetEnv(p) ==
    /\ pc[p] \in {"exec", "wait", "open_sftp", "get", "transfer", "remove"}
    /\ Len(SelectSeq(calls[p], LAMBDA c : c.op = "environ")) < MaxEnvChanges
    /\ \E v \in {None, Some("true"), Some("false")} :
         /\ v # getenv(env[p], "REMOVE_REMOTE_BACKUP")
         /\ env' = [env EXCEPT ![p] = SetKey(@, "REMOVE_REMOTE_BACKUP", v)]
         /\ Log(p, Call("environ",
                        <<getenv(env[p], "REMOVE_REMOTE_BACKUP"), v>>, TRUE))
    /\ UNCHANGED <<pc, self, frame, session, channel, exc, exitCode,
                   shell, localFS, remoteFS>>

NextEnv ==
    \/ Next
    \/ \E p \in Procs : SetEnv(p)

SpecEnv == Init /\ [][NextEnv]_vars

\* The program is sequential and every call is taken to return: a process
\* that can take a step eventually takes one.
SpecFair == Spec /\ WF_vars(Next)

----------------------------------------------------------------------------
(* Two runs started side by side on the same machine *)

\* the environments of the concurrent runs: the base environment, another
\* database, and the cleanup switched off
ConcEnvs ==
    { BaseEnv,
      [BaseEnv EXCEPT !["DB_NAME"] = "users"],
      ("REMOVE_REMOTE_BACKUP" :> "false") @@ BaseEnv }

InitConc ==
    /\ \E e1 \in ConcEnvs \ {[BaseEnv EXCEPT !["DB_NAME"] = "users"]},
          e2 \in ConcEnvs :
          env = [p \in Procs |-> IF p = 1 THEN e1
                                 ELSE IF p = 2 THEN e2 ELSE BaseEnv]
    /\ pc = [p \in Procs |-> IF p \in {1, 2} THEN "main" ELSE "off"]
    /\ Idle
    /\ localFS = Write(EmptyFS, KeyFile, KeyEntry)
    /\ remoteFS = EmptyFS

SpecConc == InitConc /\ [][Next]_vars

----------------------------------------------------------------------------
(* Reading the history of a run *)

\* the calls of process p to the operation op, in order
CallsOf(p, op) == SelectSeq(calls[p], LAMBDA c : c.op = op)

\* the calls of process p to the operation op that succeeded
Succeeded(p, op) == SelectSeq(calls[p], LAMBDA c : c.op = op /\ c.ok)

\* the calls of process p to the operation op that raised
Failed(p, op) == SelectSeq(calls[p], LAMBDA c : c.op = op /\ ~ c.ok)

\* the finally block of process p has run
Unwound(p) == pc[p] \in {"exit", "done"}

Terminated(p) == pc[p] = "done"

\* the remote command of process p ran and exited with a nonzero status
DumpFailed(p) == frame[p].exit_status \notin {None, Some(0)}

\* the cleanup flag as the configuration gives it: true unless the key is set
\* to something that does not spell true
CleanupFlag(e) ==
    "REMOVE_REMOTE_BACKUP" \in DOMAIN e =>
        e["REMOVE_REMOTE_BACKUP"] \in {"true", "True", "TRUE"}

----------------------------------------------------------------------------
(* C1: on every exit path of backup() each handle that was opened (the SSH *)
(* session, the SFTP channel) is closed exactly once: a handle is never    *)
(* closed more often than it was opened, it is opened at most once, and    *)
(* once the finally block has run every opened handle has been closed and  *)
(* none is still open.                                                     *)
C1_HandlesReleasedOnce ==
    \A p \in Procs :
        LET sshOpened == Len(Succeeded(p, "connect"))
            sftpOpened == Len(Succeeded(p, "open_sftp"))
            sshClosed == Len(CallsOf(p, "ssh_client.close"))
            sftpClosed == Len(CallsOf(p, "sftp_client.close"))
        IN  /\ sshOpened <= 1 /\ sftpOpened <= 1
            /\ sshClosed <= sshOpened /\ sftpClosed <= sftpOpened
            /\ (session[p] = "none") = (sshOpened = 0)
            /\ (channel[p] = "none") = (sftpOpened = 0)
            /\ Unwound(p) =>
                 /\ sshClosed = sshOpened /\ sftpClosed = sftpOpened
                 /\ session[p] # "open" /\ channel[p] # "open"

\* a run that failed in the remote deletion and has closed both handles
C1_Witness ==
    \E p \in Procs :
        /\ Terminated(p)
        /\ Len(Failed(p, "remove")) = 1
        /\ Len(CallsOf(p, "ssh_client.close")) = 1
        /\ Len(CallsOf(p, "sftp_client.close")) = 1
        /\ session[p] = "closed" /\ channel[p] = "closed"

\* the text of the ASCII bytes among bytes
AsciiText(bytes) == Chars(SelectSeq(bytes, IsAscii))

(* C2: if the remote dump command returns a nonzero exit status, the run   *)
(* opens no transfer channel, attempts no download and no remote deletion, *)
(* creates no local artifact, and fails with an error that carries the     *)
(* captured standard-error text.                                           *)
C2_DumpFailureStopsRun ==
    \A p \in Procs :
        DumpFailed(p) =>
            /\ CallsOf(p, "open_sftp") = <<>>
            /\ CallsOf(p, "get") = <<>>
            /\ CallsOf(p, "remove") = <<>>
            /\ \A path \in DOMAIN localFS : localFS[path].fetched # p
            /\ exc[p] # None
            /\ Contains(exc[p][1], AsciiText(frame[p].stderr[1]))
            /\ Terminated(p) => exitCode[p] = Some(1)

(* C3: in every run where the download succeeds: if the cleanup flag is    *)
(* true, exactly one deletion request is issued and its target is the      *)
(* remote path that was downloaded; if the flag is false, no deletion      *)
(* request is issued.                                                      *)
C3_DeletionFollowsFlag ==
    \A p \in Procs :
        Succeeded(p, "get") # <<>> =>
            LET removes == CallsOf(p, "remove")
                downloaded == Succeeded(p, "get")[1].args[1]
            IN  /\ Len(removes) <= 1
                /\ \A i \in DOMAIN removes : removes[i].args = <<downloaded>>
                /\ ~ CleanupFlag(env[p]) => removes = <<>>
                /\ (CleanupFlag(env[p]) /\ pc[p] \notin {"get", "remove"}) =>
                       Len(removes) = 1

\* a finished run that downloaded and deleted, the flag spelled in capitals
C3_Witness ==
    \E p \in Procs :
        /\ Terminated(p)
        /\ Succeeded(p, "get") # <<>>
        /\ Succeeded(p, "remove") # <<>>
        /\ getenv(env[p], "REMOVE_REMOTE_BACKUP") = Some("TRUE")

(* C4: if the SSH key path is unset or does not reference an existing      *)
(* file, the run fails with a configuration error and client.connect is    *)
(* never called in that run.                                               *)
C4_NoConnectWithoutKey ==
    \A p \in Procs :
        LET key == getenv(env[p], "SSH_KEY_PATH") IN
        (pc[p] # "off" /\ (key = None \/ ~ Exists(localFS, key[1]))) =>
            /\ CallsOf(p, "connect") = <<>>
            /\ pc[p] \notin {"exec", "open_sftp", "get", "transfer", "remove",
                         "report"}
            /\ Terminated(p) =>
                 /\ exitCode[p] = Some(1)
                 /\ self[p] # None =>
                      exc[p] = Some("SSH key not found at: " \o Str(key))

\* a finished run whose key path names a file that does not exist
C4_Witness ==
    \E p \in Procs :
        /\ Terminated(p)
        /\ getenv(env[p], "SSH_KEY_PATH") = Some("/nokey")
        /\ self[p] # None

(* C5: if a required configuration value (SSH host, SSH user, SSH key      *)
(* path, database name, database user) is absent or empty, the run ends in *)
(* a validation error: no connection is opened and no remote dump command  *)
(* is executed.                                                            *)
RequiredKeys == {"SSH_HOST", "SSH_USER", "SSH_KEY_PATH", "DB_NAME", "DB_USER"}

C5_RequiredValuesValidated ==
    \A p \in Procs :
        (\E k \in RequiredKeys : ~ Truthy(getenv(env[p], k))) =>
            /\ CallsOf(p, "connect") = <<>>
            /\ CallsOf(p, "exec_command") = <<>>
            /\ Terminated(p) => exitCode[p] = Some(1)

(* C6: the process exit code is 1 if and only if some step of the run      *)
(* raised an error (configuration, connection, dump command, transfer      *)
(* channel, download, remote deletion), and 0 if and only if every step    *)
(* succeeded and the run reached the size/path report.                     *)

\* some step of the run of process p raised: int() on SSH_PORT, a call that
\* failed, the dump command's nonzero status, or the key test (the object
\* was constructed and the run ended without a connect call)
StepRaised(p) ==
    \/ \E i \in DOMAIN calls[p] : ~ calls[p][i].ok
    \/ DumpFailed(p)
    \/ self[p] = None /\ CallsOf(p, "mkdir") = <<>>
    \/ self[p] # None /\ CallsOf(p, "connect") = <<>>

C6_ExitCodeReflectsOutcome ==
    \A p \in Procs :
        Terminated(p) =>
            /\ exitCode[p] \in {Some(0), Some(1)}
            /\ (exitCode[p] = Some(1)) = StepRaised(p)
            /\ (exitCode[p] = Some(0)) =
                   (~ StepRaised(p) /\ Succeeded(p, "getsize") # <<>>
                    /\ frame[p].result = frame[p].local_path)

\* a run that ended with exit code 1 because the transfer channel did not open
C6_Witness ==
    \E p \in Procs :
        /\ Terminated(p)
        /\ Failed(p, "open_sftp") # <<>>
        /\ exitCode[p] = Some(1)

(* C7: if the download succeeded and the remote deletion then fails, the   *)
(* run ends in failure (exit code 1) and the downloaded local artifact is  *)
(* left in place: in every later state it is still the complete file the   *)
(* download wrote.                                                         *)
C7_FailedCleanupKeepsLocalCopy ==
    \A p \in Procs :
        Failed(p, "remove") # <<>> =>
            LET local_path == frame[p].local_path[1] IN
            /\ Succeeded(p, "get") # <<>>
            /\ Exists(localFS, local_path)
            /\ localFS[local_path].kind = "dump"
            /\ localFS[local_path].fetched = p
            /\ localFS[local_path].complete
            /\ frame[p].result = None
            /\ Terminated(p) => exitCode[p] = Some(1)

\* a run that has ended after its deletion request failed
C7_Witness ==
    \E p \in Procs :
        /\ Terminated(p)
        /\ Failed(p, "remove") # <<>>
        /\ Exists(localFS, frame[p].local_path[1])

(* C8: for a single run in which every external operation succeeds, the    *)
(* final state is: exit code 0, the local artifact exists, and the remote  *)
(* artifact is absent when the cleanup flag is true and still present when *)
(* it is false.                                                            *)

\* the run of process p connected, dumped, opened the channel and downloaded,
\* and no call it made failed
AllSucceeded(p) ==
    /\ Succeeded(p, "connect") # <<>>
    /\ Succeeded(p, "exec_command") # <<>>
    /\ frame[p].exit_status = Some(0)
    /\ Succeeded(p, "open_sftp") # <<>>
    /\ Succeeded(p, "get") # <<>>
    /\ \A i \in DOMAIN calls[p] : calls[p][i].ok

C8_SuccessfulRunFinalState ==
    \A p \in Procs :
        (Terminated(p) /\ AllSucceeded(p)) =>
            LET local_path == frame[p].local_path[1]
                remote_path == frame[p].remote_path[1]
            IN  /\ exitCode[p] = Some(0)
                /\ Exists(localFS, local_path)
                /\ localFS[local_path].fetched = p
                /\ CleanupFlag(env[p]) => ~ Exists(remoteFS, remote_path)
                /\ ~ CleanupFlag(env[p]) => Exists(remoteFS, remote_path)

\* a successful run with the cleanup flag left at its default: the remote
\* artifact is gone
C8_Witness ==
    \E p \in Procs :
        /\ Terminated(p)
        /\ AllSucceeded(p)
        /\ getenv(env[p], "REMOVE_REMOTE_BACKUP") = None
        /\ ~ Exists(remoteFS, frame[p].remote_path[1])

(* C9: for every configuration, the command built by create_backup_command *)
(* contains the configured database host, port, user and database name,    *)
(* redirects output to <remote_backup_dir>/<backup_file>, and contains the *)
(* inline password flag -p'<password>' if and only if DB_PASSWORD is set   *)
(* and not empty.                                                          *)
C9_CommandShape ==
    \A p \in Procs :
        frame[p].backup_cmd # None =>
            LET cmd == frame[p].backup_cmd[1]
                e == env[p]
                password == getenv(e, "DB_PASSWORD")
            IN  /\ StartsWith(cmd, "mysqldump ")
                /\ Contains(cmd, " -h " \o getenvDefault(e, "DB_HOST", "localhost") \o " ")
                /\ Contains(cmd, " -P " \o getenvDefault(e, "DB_PORT", "3306") \o " ")
                /\ "DB_USER" \in DOMAIN e =>
                       Contains(cmd, " -u " \o e["DB_USER"] \o " ")
                /\ "DB_NAME" \in DOMAIN e =>
                       Contains(cmd, " " \o e["DB_NAME"] \o " > ")
                /\ EndsWith(cmd, " > " \o getenvDefault(e, "REMOTE_BACKUP_DIR", "/tmp")
                                 \o "/" \o frame[p].backup_file[1])
                /\ Contains(cmd, "-p'") = (password \notin {None, Some("")})
                /\ password \notin {None, Some("")} =>
                       Contains(cmd, " -p'" \o password[1] \o "' ")

\* a command was built for a configuration with the password pw
C9_Witness ==
    \E p \in Procs :
        /\ frame[p].backup_cmd # None
        /\ getenv(env[p], "DB_PASSWORD") = Some("pw")
        /\ Contains(frame[p].backup_cmd[1], "-p'pw' ")

(* C10: whenever both the transfer channel and the session were opened in  *)
(* a run, the transfer channel is closed before the session is closed, on  *)
(* every exit path.                                                        *)
C10_ChannelClosedBeforeSession ==
    \A p \in Procs :
        /\ \A i, j \in DOMAIN calls[p] :
             (calls[p][i].op = "sftp_client.close"
              /\ calls[p][j].op = "ssh_client.close") => i < j
        /\ (Succeeded(p, "connect") # <<>> /\ Succeeded(p, "open_sftp") # <<>>
            /\ Unwound(p)) =>
               /\ CallsOf(p, "sftp_client.close") # <<>>
               /\ CallsOf(p, "ssh_client.close") # <<>>
        /\ channel[p] = "open" => session[p] # "closed"

\* a run that failed in the download and then closed both handles
C10_Witness ==
    \E p \in Procs :
        /\ Unwound(p)
        /\ Failed(p, "get") # <<>>
        /\ CallsOf(p, "sftp_client.close") # <<>>
        /\ CallsOf(p, "ssh_client.close") # <<>>

----------------------------------------------------------------------------
(* The state machine of a run *)

\* the state of the run of process p, read from what the run has achieved
RunState(p) ==
    IF exc[p] # None THEN "Failed"
    ELSE IF frame[p].result # None THEN "Reported"
    ELSE IF Succeeded(p, "remove") # <<>> THEN "RemoteCleaned"
    ELSE IF Succeeded(p, "get") # <<>> THEN "Downloaded"
    ELSE IF frame[p].exit_status = Some(0) THEN "DumpExecuted"
    ELSE IF Succeeded(p, "connect") # <<>> THEN "Connected"
    ELSE IF self[p] # None THEN "Configured"
    ELSE "Init"

\* the transitions of the state machine between distinct states
RunEdges ==
    { <<"Init", "Configured">>, <<"Configured", "Connected">>,
      <<"Connected", "DumpExecuted">>, <<"DumpExecuted", "Downloaded">>,
      <<"Downloaded", "RemoteCleaned">>, <<"Downloaded", "Reported">>,
      <<"RemoteCleaned", "Reported">> }
    \cup { <<st, "Failed">> : st \in {"Init", "Configured", "Connected",
                                      "DumpExecuted", "Downloaded",
                                      "RemoteCleaned"} }

\* the positions at which the next step of the run may raise
MayRaise(p) ==
    \/ pc[p] \in {"main", "connect", "exec", "open_sftp", "get", "transfer",
                 "report"}
    \/ pc[p] = "remove" /\ CleanupFlag(env[p])

(* C11: every run follows the state machine Init -> Configured ->          *)
(* Connected -> DumpExecuted -> Downloaded -> [RemoteCleaned] -> Reported: *)
(* every step of a run either stays in its state or takes one of these     *)
(* transitions or goes to Failed; no state is skipped except RemoteCleaned *)
(* and none is re-entered; Failed and Reported are never left; and in      *)
(* every non-terminal state a step to Failed is possible at the next call  *)
(* the run makes.                                                          *)
C11_RunStateMachine ==
    /\ [][\A p \in Procs :
            \/ RunState(p)' = RunState(p)
            \/ <<RunState(p), RunState(p)'>> \in RunEdges]_vars
    /\ [](\A p \in Procs :
            /\ MayRaise(p) =>
                 /\ RunState(p) \notin {"Failed", "Reported"}
                 /\ ENABLED (Next /\ RunState(p)' = "Failed")
            /\ (pc[p] = "remove" /\ RunState(p) = "Downloaded"
                /\ ~ CleanupFlag(env[p])) =>
                   ENABLED (Next /\ pc'[p] = "report"
                            /\ RunState(p)' = "Downloaded")
            /\ RunState(p) \in {"Failed", "Reported"} =>
                 pc[p] \in {"finally", "exit", "done"})

\* a run that was reported after passing through RemoteCleaned
C11_Witness ==
    \E p \in Procs :
        /\ Terminated(p)
        /\ RunState(p) = "Reported"
        /\ Succeeded(p, "remove") # <<>>
        /\ exitCode[p] = Some(0)

----------------------------------------------------------------------------
(* Concurrent runs *)

\* two moments within the same second
SameSecond(a, b) ==
    /\ a.year = b.year /\ a.month = b.month /\ a.day = b.day
    /\ a.hour = b.hour /\ a.minute = b.minute /\ a.second = b.second

\* process p downloaded a dump that process q wrote
DownloadedDumpOf(p, q) ==
    \E path \in DOMAIN localFS :
        localFS[path].fetched = p /\ localFS[path].writer = q

(* C12: concurrent runs are not coordinated: two runs for the same         *)
(* database and staging directory that generate their filename within the  *)
(* same second compute the same filename and the same remote path; the     *)
(* witness is the reachable interleaving in which one run overwrites the   *)
(* remote artifact the other has produced but not yet downloaded, so that  *)
(* the other run downloads the wrong dump.                                 *)
C12_SameSecondSamePath ==
    \A p, q \in Procs :
        (/\ p # q
         /\ frame[p].now # None /\ frame[q].now # None
         /\ getenv(env[p], "DB_NAME") = getenv(env[q], "DB_NAME")
         /\ getenv(env[p], "REMOTE_BACKUP_DIR") = getenv(env[q], "REMOTE_BACKUP_DIR")
         /\ SameSecond(frame[p].now[1], frame[q].now[1])) =>
            /\ frame[p].backup_file = frame[q].backup_file
            /\ (frame[p].remote_path # None /\ frame[q].remote_path # None) =>
                   frame[p].remote_path = frame[q].remote_path

\* two runs that collided within one second at different moments: the dump
\* command of p ended with status 0, the command of q wrote the same file,
\* and the download of p delivered what q wrote
C12_Witness ==
    \E p, q \in Procs :
        /\ p # q
        /\ frame[p].remote_path # None
        /\ frame[p].remote_path = frame[q].remote_path
        /\ frame[p].now # frame[q].now
        /\ frame[p].exit_status = Some(0)
        /\ Succeeded(p, "get") # <<>>
        /\ DownloadedDumpOf(p, q)

----------------------------------------------------------------------------
(* The configuration as a snapshot *)

\* the value of REMOVE_REMOTE_BACKUP when DatabaseBackup() resolved the
\* configuration of process p: the value before the first change
FlagAtConfiguration(p) ==
    LET changes == CallsOf(p, "environ") IN
    IF changes = <<>> THEN getenv(env[p], "REMOVE_REMOTE_BACKUP")
    ELSE changes[1].args[1]

\* the cleanup flag a value of REMOVE_REMOTE_BACKUP stands for
FlagOf(v) == v = None \/ v[1] \in {"true", "True", "TRUE"}

(* C13: the configuration of a run, the remote-cleanup flag included, is a *)
(* snapshot fixed when the configuration is resolved: once the download    *)
(* has succeeded, a deletion request is issued if and only if the flag was *)
(* true at configuration time, whatever happened to REMOVE_REMOTE_BACKUP   *)
(* in the environment afterwards.                                          *)
C13_FlagFixedAtConfiguration ==
    \A p \in Procs :
        (Succeeded(p, "get") # <<>> /\ pc[p] \notin {"get", "remove"}) =>
            (CallsOf(p, "remove") # <<>>) = FlagOf(FlagAtConfiguration(p))

----------------------------------------------------------------------------
(* The paths of a run *)

\* the file named file in the directory dir
InDirectory(dir, file) ==
    IF dir = "" THEN file
    ELSE IF EndsWith(dir, "/") THEN dir \o file
    ELSE dir \o "/" \o file

(* C14: within one run a single artifact filename is generated once; the   *)
(* remote path the dump command redirects to, the source of the download   *)
(* and the target of the deletion are all <remote_backup_dir>/<filename>;  *)
(* the download destination is that filename in <local_backup_dir>; and a  *)
(* successful download replaces whatever local file had that name.         *)
C14_OneFilenameAllPaths ==
    /\ [](\A p \in Procs :
            frame[p].backup_file # None =>
                LET file == frame[p].backup_file[1]
                    remote == getenvDefault(env[p], "REMOTE_BACKUP_DIR", "/tmp")
                              \o "/" \o file
                    local == InDirectory(
                        getenvDefault(env[p], "LOCAL_BACKUP_DIR", "./backups"),
                        file)
                    execs == CallsOf(p, "exec_command")
                    gets == CallsOf(p, "get")
                    removes == CallsOf(p, "remove")
                IN  /\ \A i \in DOMAIN execs :
                         EndsWith(execs[i].args[1], " > " \o remote)
                    /\ \A i \in DOMAIN gets : gets[i].args = <<remote, local>>
                    /\ \A i \in DOMAIN removes : removes[i].args = <<remote>>
                    /\ (frame[p].exit_status = Some(0)
                        /\ Succeeded(p, "remove") = <<>>) =>
                           /\ Exists(remoteFS, remote)
                           /\ remoteFS[remote] = Dump(p, TRUE)
                    /\ Succeeded(p, "get") # <<>> =>
                           /\ Exists(localFS, local)
                           /\ localFS[local].fetched = p
                           /\ localFS[local].writer = p)
    /\ [][\A p \in Procs :
            frame[p].backup_file # None =>
                frame'[p].backup_file = frame[p].backup_file]_vars

\* a finished run that downloaded to the name an older local file may have
\* had, and then deleted the remote file
C14_Witness ==
    \E p \in Procs :
        /\ Terminated(p)
        /\ Succeeded(p, "remove") # <<>>
        /\ frame[p].local_path =
               Some("./backups/orders_backup_20240105_090307.sql")
        /\ localFS["./backups/orders_backup_20240105_090307.sql"].fetched = p

----------------------------------------------------------------------------
(* Termination *)

ExternalOperations == {"connect", "exec_command", "open_sftp", "get", "remove"}

(* C15: a run is single-shot: each external operation (connect, execute    *)
(* the dump command, open the transfer channel, download, delete) is       *)
(* invoked at most once per run, and, every invoked operation returning,   *)
(* a started run eventually reaches Reported or Failed and the process     *)
(* exits.                                                                  *)
C15_SingleShotTerminates ==
    /\ [](\A p \in Procs : \A op \in ExternalOperations :
            Len(CallsOf(p, op)) <= 1)
    /\ \A p \in Procs :
         (pc[p] = "main") ~>
             (/\ Terminated(p)
              /\ exitCode[p] # None
              /\ RunState(p) \in {"Reported", "Failed"})

\* a run that has exited after exec_command itself raised
C15_Witness ==
    \E p \in Procs :
        /\ Terminated(p)
        /\ Failed(p, "exec_command") # <<>>
        /\ RunState(p) = "Failed"
        /\ exitCode[p] = Some(1)

----------------------------------------------------------------------------
(* Deletion only after a download *)

\* the run of process p started the dump command and failed in it, in
\* opening the transfer channel or in the download
FailedBeforeCleanup(p) ==
    \/ Failed(p, "exec_command") # <<>>
    \/ DumpFailed(p)
    \/ Failed(p, "open_sftp") # <<>>
    \/ Failed(p, "get") # <<>>

(* C16: in every reachable state of a run a deletion request has been      *)
(* issued only if the download of that same remote path completed          *)
(* successfully earlier in the run; on every failure path after the dump   *)
(* command was started (nonzero status, channel open failure, download     *)
(* failure) no deletion is requested, no remote file disappears, and the   *)
(* artifact a successful dump wrote is still in the staging directory.     *)
C16_DeletionOnlyAfterDownload ==
    /\ [](\A p \in Procs :
            /\ \A i \in DOMAIN calls[p] :
                 calls[p][i].op = "remove" =>
                     \E j \in 1..(i - 1) :
                         /\ calls[p][j].op = "get"
                         /\ calls[p][j].ok
                         /\ calls[p][j].args[1] = calls[p][i].args[1]
            /\ FailedBeforeCleanup(p) =>
                 /\ CallsOf(p, "remove") = <<>>
                 /\ pc[p] \in {"finally", "exit", "done"}
                 /\ frame[p].exit_status = Some(0) =>
                      /\ Exists(remoteFS, frame[p].remote_path[1])
                      /\ remoteFS[frame[p].remote_path[1]] = Dump(p, TRUE))
    /\ [][(\E p \in Procs : FailedBeforeCleanup(p)') =>
             \A path \in DOMAIN remoteFS : path \in DOMAIN remoteFS']_vars

\* a finished run whose download failed after a successful dump: the remote
\* artifact is still there
C16_Witness ==
    \E p \in Procs :
        /\ Terminated(p)
        /\ frame[p].exit_status = Some(0)
        /\ Failed(p, "get") # <<>>
        /\ Exists(remoteFS, frame[p].remote_path[1])

----------------------------------------------------------------------------
(* Runs with different filenames *)

\* the runs of p and q generated their filenames for different databases or
\* in different seconds
DifferentArtifacts(p, q) ==
    /\ frame[p].now # None /\ frame[q].now # None
    /\ \/ Str(getenv(env[p], "DB_NAME")) # Str(getenv(env[q], "DB_NAME"))
       \/ ~ SameSecond(frame[p].now[1], frame[q].now[1])

\* the run of process p as the run itself knows it: its environment, its
\* position, its object and local variables, its handles, the calls it
\* made, its exception and exit code, and its remote command
Run(p) ==
    <<env[p], pc[p], self[p], frame[p], session[p], channel[p], calls[p],
      exc[p], exitCode[p], shell[p]>>

\* the remote path the run of process p redirects its dump to (line 60)
OwnRemotePath(p) ==
    create_backup_command(self[p][1], frame[p].backup_file[1])[2]

\* the file at path in the file system fs, None when there is none
FileAt(fs, path) == IF Exists(fs, path) THEN Some(fs[path]) ELSE None

\* What the run of process p finds in its remote and local files when it
\* runs alone: while its command runs, what the command wrote; after status
\* 0 the whole dump, until the run deletes it; during the download the
\* whole dump behind the open handle and its first part in the local file;
\* after the download the whole dump in the local file; after a failed
\* download an empty or unfinished local file, or none.
FindsWhatALoneRunFinds(p) ==
    LET remote == OwnRemotePath(p)
        local == frame[p].local_path[1]
    IN  /\ shell[p].state # "unlinked"
        /\ shell[p].state = "running" =>
              FileAt(remoteFS, remote) = Some(Dump(p, FALSE))
        /\ Exists(remoteFS, remote) => remoteFS[remote].writer = p
        /\ (frame[p].exit_status = Some(0)
            /\ Succeeded(p, "remove") = <<>>) =>
               FileAt(remoteFS, remote) = Some(Dump(p, TRUE))
        /\ Succeeded(p, "remove") # <<>> => ~ Exists(remoteFS, remote)
        /\ pc[p] = "transfer" =>
              /\ frame[p].remote_file =
                     Some([first |-> Dump(p, TRUE), removed |-> None])
              /\ FileAt(localFS, local) =
                     Some(Download(p, Dump(p, TRUE), FALSE))
        /\ Succeeded(p, "get") # <<>> =>
              FileAt(localFS, local) = Some(Download(p, Dump(p, TRUE), TRUE))
        /\ Failed(p, "get") # <<>> =>
              FileAt(localFS, local) \in
                  {None, Some(Truncated(p)),
                   Some(Download(p, Dump(p, TRUE), FALSE))}

\* The outcome of the finished run of process p is the outcome of a lone
\* run: exit code 1 exactly when a step of its own raised, and with exit
\* code 0 the path of the download reported and the remote artifact
\* deleted or kept as the run's own flag says.
EndsAsALoneRunEnds(p) ==
    Terminated(p) =>
        /\ (exitCode[p] = Some(1)) = StepRaised(p)
        /\ (exitCode[p] = Some(0)) =
               (~ StepRaised(p) /\ frame[p].result = frame[p].local_path)
        /\ exitCode[p] = Some(0) =>
               /\ AllSucceeded(p)
               /\ Exists(remoteFS, OwnRemotePath(p)) = ~ remove_remote(env[p])

(* C17: two concurrent runs whose generated filenames differ (different    *)
(* database name or different timestamp second) never interfere through    *)
(* the remote staging directory.  Under every interleaving their remote    *)
(* and local paths differ; each run writes, downloads and deletes only its *)
(* own remote path; no step changes both runs, and a step that is not a    *)
(* step of a run changes neither its remote file nor its local file; each  *)
(* run finds in its files at every position what it finds when it runs     *)
(* alone; and each run ends with the outcome it has alone.                 *)
C17_DifferentNamesDoNotInterfere ==
    /\ [](\A p, q \in Procs :
            (p # q /\ DifferentArtifacts(p, q)) =>
                /\ frame[p].backup_file # frame[q].backup_file
                /\ frame[p].local_path # frame[q].local_path
                /\ OwnRemotePath(p) # OwnRemotePath(q)
                /\ frame[p].remote_path \in {None, Some(OwnRemotePath(p))}
                /\ \A i \in DOMAIN CallsOf(p, "exec_command") :
                     EndsWith(CallsOf(p, "exec_command")[i].args[1],
                              " > " \o OwnRemotePath(p))
                /\ \A i \in DOMAIN CallsOf(p, "get") :
                     CallsOf(p, "get")[i].args =
                         <<OwnRemotePath(p), frame[p].local_path[1]>>
                /\ \A i \in DOMAIN CallsOf(p, "remove") :
                     CallsOf(p, "remove")[i].args = <<OwnRemotePath(p)>>
                /\ FindsWhatALoneRunFinds(p)
                /\ EndsAsALoneRunEnds(p))
    /\ [][\A p, q \in Procs :
            (p # q /\ DifferentArtifacts(p, q)) =>
                /\ Run(p)' = Run(p) \/ Run(q)' = Run(q)
                /\ Run(p)' = Run(p) =>
                     /\ FileAt(remoteFS', OwnRemotePath(p)) =
                            FileAt(remoteFS, OwnRemotePath(p))
                     /\ FileAt(localFS', frame[p].local_path[1]) =
                            FileAt(localFS, frame[p].local_path[1])]_vars

\* two finished runs for the same database, started in different seconds,
\* each of which downloaded and deleted its own dump
C17_Witness ==
    \E p, q \in Procs :
        /\ p # q
        /\ Terminated(p) /\ Terminated(q)
        /\ getenv(env[p], "DB_NAME") = getenv(env[q], "DB_NAME")
        /\ DifferentArtifacts(p, q)
        /\ AllSucceeded(p) /\ AllSucceeded(q)
        /\ Succeeded(p, "remove") # <<>> /\ Succeeded(q, "remove") # <<>>
        /\ exitCode[p] = Some(0) /\ exitCode[q] = Some(0)

====
